---- MODULE Spec2Model ----
(***************************************************************************)
(* Webasto Unite Modbus coordinator (custom_components/webasto_unite_modbus)*)
(*                                                                         *)
(* The coordinator owns one pymodbus client.  Four coroutines drive it on  *)
(* one asyncio event loop: the poll cycle (_async_update_data), the write  *)
(* of async_write_holding_register, the keep-alive task and async_shutdown.*)
(* A coroutine runs atomically from one await to the next, so every action *)
(* below is the code between two awaits.  A transport request is in flight *)
(* from the step that calls the client to the step that resumes the await. *)
(*                                                                         *)
(* Environment: the update scheduler of the platform runs one poll cycle   *)
(* at a time and starts a cycle either on its interval or after            *)
(* async_request_refresh was called.  The charger keeps a holding register *)
(* until it is written and its input registers do not change.              *)
(*                                                                         *)
(* Four specifications share the variables.  Spec (and FairSpec, with the  *)
(* event loop's fairness) is the coordinator with its coroutines.          *)
(* DecodeSpec applies _decode_value to a catalog descriptor and a list of  *)
(* words on its own.  CallSpec follows the arguments of the requests that  *)
(* poll, write and keep-alive hand to the client, for every set of unit-id *)
(* parameter names the client may declare.  FlowSpec is async_step_user of *)
(* the setup flow with its own test client.                                *)
(***************************************************************************)
EXTENDS Integers, Sequences, FiniteSets, TLC

\* ------------------------------------------------------------------ bounds
MaxPolls == 2
MaxWrites == 1
MaxShutdowns == 1
MaxWords == 3
MaxSubmits == 2

\* --------------------------------------------------------------- constants
KEEP_ALIVE_INTERVAL == 5
KEEP_ALIVE_REGISTER == 6000
DEFAULT_UNIT_ID == 255
DEFAULT_PORT == 502
DEFAULT_SCAN_INTERVAL == 10

\* Mutant of RegisterDef: the count of an entry is taken in bytes, two per word.
M_RegisterDef(key, address, input_type, data_type, count, num, den) ==
    [key |-> key, address |-> address, input_type |-> input_type,
     data_type |-> data_type, count |-> 2 * count, scale_num |-> num, scale_den |-> den]

RegisterDef(key, address, input_type, data_type, count, num, den) ==
    [key |-> key, address |-> address, input_type |-> input_type,
     data_type |-> data_type, count |-> count, scale_num |-> num, scale_den |-> den]

\* scale is kept as the fraction scale_num / scale_den (0.001 = 1/1000, 0.1 = 1/10).
REGISTER_MAP ==
    << RegisterDef("serial_number", 100, "input", "string", 25, 1, 1),
       RegisterDef("charge_point_id", 130, "input", "string", 50, 1, 1),
       RegisterDef("brand", 190, "input", "string", 10, 1, 1),
       RegisterDef("model", 210, "input", "string", 5, 1, 1),
       RegisterDef("firmware_version", 230, "input", "string", 50, 1, 1),
       RegisterDef("date", 290, "input", "uint32", 1, 1, 1),
       RegisterDef("time", 294, "input", "uint32", 1, 1, 1),
       RegisterDef("charge_point_power", 400, "input", "uint32", 1, 1, 1),
       RegisterDef("number_of_phases", 404, "input", "uint16", 1, 1, 1),
       RegisterDef("charge_point_state", 1000, "input", "uint16", 1, 1, 1),
       RegisterDef("charging_state", 1001, "input", "uint16", 1, 1, 1),
       RegisterDef("equipment_state", 1002, "input", "uint16", 1, 1, 1),
       RegisterDef("cable_state", 1004, "input", "uint16", 1, 1, 1),
       RegisterDef("fault_code", 1006, "input", "uint16", 1, 1, 1),
       RegisterDef("current_l1", 1008, "input", "uint16", 1, 1, 1000),
       RegisterDef("current_l2", 1010, "input", "uint16", 1, 1, 1000),
       RegisterDef("current_l3", 1012, "input", "uint16", 1, 1, 1000),
       RegisterDef("voltage_l1", 1014, "input", "uint16", 1, 1, 1),
       RegisterDef("voltage_l2", 1016, "input", "uint16", 1, 1, 1),
       RegisterDef("voltage_l3", 1018, "input", "uint16", 1, 1, 1),
       RegisterDef("active_power_total", 1020, "input", "uint32", 1, 1, 1),
       RegisterDef("active_power_l1", 1024, "input", "uint32", 1, 1, 1),
       RegisterDef("active_power_l2", 1028, "input", "uint32", 1, 1, 1),
       RegisterDef("active_power_l3", 1032, "input", "uint32", 1, 1, 1),
       RegisterDef("meter_reading", 1036, "input", "uint32", 1, 1, 10),
       RegisterDef("session_max_current", 1100, "input", "uint16", 1, 1, 1),
       RegisterDef("evse_min_current", 1102, "input", "uint16", 1, 1, 1),
       RegisterDef("evse_max_current", 1104, "input", "uint16", 1, 1, 1),
       RegisterDef("cable_max_current", 1106, "input", "uint16", 1, 1, 1),
       RegisterDef("charged_energy", 1502, "input", "uint32", 1, 1, 1000),
       RegisterDef("session_start_time", 1504, "input", "uint32", 1, 1, 1),
       RegisterDef("session_duration", 1508, "input", "uint32", 1, 1, 1),
       RegisterDef("session_end_time", 1512, "input", "uint32", 1, 1, 1),
       RegisterDef("failsafe_current", 2000, "holding", "uint16", 1, 1, 1),
       RegisterDef("failsafe_timeout", 2002, "holding", "uint16", 1, 1, 1),
       RegisterDef("charging_current_limit", 5004, "holding", "uint16", 1, 1, 1),
       RegisterDef("alive_register", 6000, "holding", "uint16", 1, 1, 1) >>

RegisterKeys == {REGISTER_MAP[i].key : i \in 1..Len(REGISTER_MAP)}

\* number.py: the writable number entities, with the address each writes.
NumberDescription(key, address) == [key |-> key, address |-> address]

NUMBER_DESCRIPTIONS ==
    << NumberDescription("failsafe_current", 2000),
       NumberDescription("failsafe_timeout", 2002),
       NumberDescription("charging_current_limit", 5004) >>

\* ------------------------------------------------------------------ values
\* A decoded value: None, a number num/den, a string (its byte codes) or the
\* capture timestamp.
NoneValue == [t |-> "none", n |-> 0, d |-> 1, s |-> << >>]
NumValue(n, d) == [t |-> "num", n |-> n, d |-> d, s |-> << >>]
StrValue(s) == [t |-> "str", n |-> 0, d |-> 1, s |-> s]
TimeValue(c) == [t |-> "time", n |-> c, d |-> 1, s |-> << >>]

\* The snapshot before the first successful poll: no key at all.
NoData == << >>


\* ------------------------------------------------------------------ device
\* The holding registers of the catalog; each is one word wide.
HoldingAddresses == {REGISTER_MAP[i].address : i \in {j \in 1..Len(REGISTER_MAP) : REGISTER_MAP[j].input_type = "holding"}}

\* What the charger holds when the coordinator is constructed.
InitialHolding ==
    [a \in HoldingAddresses |->
        CASE a = 2000 -> 10
          [] a = 2002 -> 60
          [] a = 5004 -> 32
          [] OTHER -> 0]

Zeros(n) == [i \in 1..n |-> 0]

\* An identification string as the charger stores it: two characters per word,
\* padded to the register count with a space and NUL bytes ("WU2 " then NULs).
PaddedString(count) == <<22357, 12832>> \o Zeros(count - 2)

\* The words the charger answers to `method` for `count` words at `address`:
\* the holding bank answers with the register's content, the input bank with
\* an identification string, a 32-bit or a 16-bit measurement.
DeviceWords(method, address, count, hold) ==
    IF method = "read_holding_registers"
    THEN IF address \in HoldingAddresses THEN <<hold[address]>> ELSE Zeros(count)
    ELSE IF count > 2 THEN PaddedString(count)
    ELSE IF count = 2 THEN <<1, 500>>
    ELSE <<230>>

\* ------------------------------------------------------------- value codec
UTF8Continuation(b) == b >= 128 /\ b <= 191

\* The length of the valid UTF-8 sequence that starts at b[i]; 0 if none does.
Utf8Len(b, i) ==
    IF b[i] < 128 THEN 1
    ELSE IF /\ b[i] >= 194 /\ b[i] <= 223
            /\ i + 1 <= Len(b) /\ UTF8Continuation(b[i + 1])
         THEN 2
    ELSE IF /\ b[i] >= 224 /\ b[i] <= 239
            /\ i + 2 <= Len(b) /\ UTF8Continuation(b[i + 1]) /\ UTF8Continuation(b[i + 2])
            /\ (b[i] = 224 => b[i + 1] >= 160)
            /\ (b[i] = 237 => b[i + 1] <= 159)
         THEN 3
    ELSE IF /\ b[i] >= 240 /\ b[i] <= 244
            /\ i + 3 <= Len(b) /\ UTF8Continuation(b[i + 1])
            /\ UTF8Continuation(b[i + 2]) /\ UTF8Continuation(b[i + 3])
            /\ (b[i] = 240 => b[i + 1] >= 144)
            /\ (b[i] = 244 => b[i + 1] <= 143)
         THEN 4
    ELSE 0

\* The code point of the valid sequence that starts at b[i].
Utf8CodePoint(b, i) ==
    CASE Utf8Len(b, i) = 1 -> b[i]
      [] Utf8Len(b, i) = 2 -> (b[i] - 192) * 64 + (b[i + 1] - 128)
      [] Utf8Len(b, i) = 3 ->
            (b[i] - 224) * 4096 + (b[i + 1] - 128) * 64 + (b[i + 2] - 128)
      [] OTHER ->
            (b[i] - 240) * 262144 + (b[i + 1] - 128) * 4096
            + (b[i + 2] - 128) * 64 + (b[i + 3] - 128)

\* bytes(chars).decode("utf-8", errors="ignore") over b[lo..hi]: the code points
\* of the valid sequences, every byte that belongs to none dropped.  A byte
\* inside a valid sequence is a continuation byte and starts no sequence, so
\* the halves of the range decode independently.
RECURSIVE Utf8Ignore(_, _, _)
Utf8Ignore(b, lo, hi) ==
    IF lo > hi THEN << >>
    ELSE IF lo = hi THEN (IF Utf8Len(b, lo) > 0 THEN <<Utf8CodePoint(b, lo)>> ELSE << >>)
    ELSE Utf8Ignore(b, lo, (lo + hi) \div 2) \o Utf8Ignore(b, (lo + hi) \div 2 + 1, hi)

StripChars == {0, 32}

\* The positions of `s` that hold a character str.strip does not remove.
Kept(s) == {i \in 1..Len(s) : s[i] \notin StripChars}

\* str.lstrip / str.rstrip: the run of strip characters at one end is removed.
LStrip(s) ==
    IF Kept(s) = {} THEN << >>
    ELSE SubSeq(s, CHOOSE i \in Kept(s) : \A j \in Kept(s) : i <= j, Len(s))

RStrip(s) ==
    IF Kept(s) = {} THEN << >>
    ELSE SubSeq(s, 1, CHOOSE i \in Kept(s) : \A j \in Kept(s) : i >= j)

\* str.strip("\x00 "): the characters are removed at both ends.
Strip(s) == RStrip(LStrip(s))

\* Mutant of WordBytes: the low byte of a word comes before its high byte.
M_WordBytes(registers) ==
    [i \in 1..(2 * Len(registers)) |->
        IF i % 2 = 1 THEN registers[(i + 1) \div 2] % 256
        ELSE (registers[i \div 2] \div 256) % 256]

\* The high byte, then the low byte of every word, in order.
WordBytes(registers) ==
    [i \in 1..(2 * Len(registers)) |->
        IF i % 2 = 1 THEN (registers[(i + 1) \div 2] \div 256) % 256
        ELSE registers[i \div 2] % 256]

\* Mutant of Scaled: the scale is not applied.
M_Scaled(value, register) == NumValue(value, 1)

\* value * register.scale
Scaled(value, register) == NumValue(value * register.scale_num, register.scale_den)

_decode_value(registers, register) ==
    IF register.data_type = "uint32"
    THEN IF Len(registers) < 2 THEN NoneValue
         ELSE Scaled(registers[1] * 65536 + registers[2], register)
    ELSE IF register.data_type = "string"
    THEN StrValue(Strip(Utf8Ignore(WordBytes(registers), 1, 2 * Len(registers))))
    ELSE IF registers = << >> THEN NoneValue
         ELSE Scaled(registers[1], register)

\* Mutant of ReadCount: a 32-bit value is requested with the descriptor's count.
M_ReadCount(register) == register.count

\* _read_register: the word count of the request.
ReadCount(register) == IF register.data_type = "uint32" THEN 2 ELSE register.count

\* Mutant of ReadMethod: input_type is ignored and the input bank is read.
M_ReadMethod(register) == "read_input_registers"

\* _read_register: the client method the request goes to.
ReadMethod(register) ==
    IF register.input_type = "holding" THEN "read_holding_registers" ELSE "read_input_registers"


\* ------------------------------------------------------------------- state
VARIABLES
    connected,          \* client.connected
    holding,            \* the charger's holding registers, by address
    data,               \* coordinator.data: the published snapshot
    poll_pc,            \* _async_update_data: "idle", "connecting", "reading"
    poll_idx,           \* index in REGISTER_MAP of the read in flight
    poll_data,          \* the local dict `data` of the running cycle
    poll_trigger,       \* what started the cycle: "interval" or "refresh"
    poll_outcome,       \* how the last cycle ended
    poll_raised_at,     \* where it raised: "connect", "first_read", "later_read"
    polls_started,      \* cycles started so far; also the clock of utcnow()
    refresh_requested,  \* async_request_refresh was called and not yet served
    w_pc,               \* async_write_holding_register: "idle", "connecting", "writing"
    w_address,
    w_value,
    writes_started,
    keep_alive_task,    \* _keep_alive_task: "None", "created", "sleeping", "writing",
                        \* "returned", "cancelled"
    ka_cancel,          \* cancel() was called on the task
    ka_error,           \* the last keep-alive write failed and none was tried since
    ka_alive,           \* history: keep-alive tasks created and not yet ended
    ka_request,         \* history: the request of the keep-alive loop in flight
    sd_pc,              \* async_shutdown: "idle", "awaiting", "done"
    shutdowns,          \* async_shutdown calls so far
    close_calls,        \* client.close() calls so far
    poll_connect,       \* history: what async_start_keep_alive did in the connect
                        \* of the cycle, while its first read is in flight: "none",
                        \* "created" (it created the task), "kept" (it did not)
    poll_response,      \* history: the transport's answer that ended the last cycle
    poll_reads,         \* history: the reads the cycle handed to the client, in
                        \* order; kept after a cycle that returned its dict until
                        \* the next one starts
    poll_names,         \* history: what the UpdateFailed of a read error names:
                        \* "none", "failing_read" (the address of the read that
                        \* failed) or "other"
    data_at_start,      \* history: the snapshot when the running cycle started
    poll_read_in,       \* history: the cycles that read the values of poll_data
    data_read_in,       \* history: the same for the published snapshot
    w_call,             \* history: the entity call behind the running write
    w_response,         \* history: the transport's answer to each write call
    w_names,            \* history: the address the UpdateFailed of the last write
                        \* call names; 0 if it names none
    refresh_by,         \* history: the write call that requested the refresh
    written,            \* history: the last successful write not yet followed by a publish
    sent_at_start,      \* history: per address, the last value written when the cycle
                        \* started; -1 once a write call succeeded while it runs
    last_sent,          \* history: per address, the last value written by a write call
    dec_registers,      \* _decode_value on its own: the words given to it,
    dec_register,       \* the descriptor given to it,
    dec_value,          \* and what it returned
    client_params,      \* the parameter names of the client's read_holding_registers
    _modbus_unit_keyword, \* the keyword cached by __init__; "None" is positional
    last_call,          \* the request a coroutine last handed to the client
    flow_pc,            \* async_step_user of the setup flow: "new", "form",
                        \* "connecting", "reading", "entry", "aborted"
    flow_input,         \* user_input of the step
    flow_errors,        \* errors["base"] of the step; "none" while errors is empty
    flow_address,       \* index in test_addresses of the probe read in flight
    flow_clients,       \* test clients created so far
    flow_closed,        \* close() calls on test clients so far
    flow_submits,       \* steps with user input so far
    flow_configured,    \* the unique ids of the entries that are configured
    flow_connect,       \* history: what connect() answered in the step
    flow_reads,         \* history: the probe reads of the step, with their answers
    flow_entry          \* the data of the entry the flow created

\* The coordinator and its coroutines.
coordVars ==
    <<connected, holding, data, poll_pc, poll_idx, poll_data, poll_trigger, poll_outcome,
      poll_raised_at, polls_started, refresh_requested, w_pc, w_address, w_value,
      writes_started, keep_alive_task, ka_cancel, ka_error, ka_alive, ka_request,
      sd_pc, shutdowns,
      close_calls, poll_connect, poll_response, poll_names, poll_reads,
      data_at_start, poll_read_in, data_read_in, w_call, w_response, w_names,
      refresh_by, written, sent_at_start, last_sent>>

\* The decoder applied on its own, and the argument form of the requests.
decodeVars == <<dec_registers, dec_register, dec_value>>
callVars == <<client_params, _modbus_unit_keyword, last_call>>

\* The setup flow of config_flow.py.
flowVars == <<flow_pc, flow_input, flow_errors, flow_address, flow_clients, flow_closed,
              flow_submits, flow_configured, flow_connect, flow_reads, flow_entry>>

auxVars == <<decodeVars, callVars, flowVars>>

vars == <<coordVars, auxVars>>

pollVars == <<poll_pc, poll_idx, poll_data, poll_trigger, poll_outcome, poll_raised_at,
              polls_started, poll_connect, poll_response, poll_names, poll_reads,
              data_at_start, poll_read_in, sent_at_start>>
writeVars == <<w_pc, w_address, w_value, writes_started, w_call, w_response,
               w_names, last_sent>>
kaVars == <<keep_alive_task, ka_cancel, ka_error, ka_alive, ka_request>>
sdVars == <<sd_pc, shutdowns, close_calls>>

NothingSent == [a \in HoldingAddresses |-> -1]

NoCall == [entity |-> "none", halves |-> 0]

\* The keep-alive loop has no request in flight.
NoWrite == [method |-> "none", address |-> 0, value |-> 0]

\* The answer of the transport that ended a poll cycle: the step ("connect" or
\* "read") and what it answered.
PollAnswer(step, outcome) == [step |-> step, answer |-> outcome]

NoAnswer == PollAnswer("none", "none")

\* The unit-id parameter names a pymodbus client may declare.
UnitKeywords == {"device_id", "unit", "slave"}

\* Mutant of _detect_modbus_unit_keyword: the names are tried in another order.
M_detect_modbus_unit_keyword(params) ==
    IF "slave" \in params THEN "slave"
    ELSE IF "unit" \in params THEN "unit"
    ELSE IF "device_id" \in params THEN "device_id"
    ELSE "None"

\* _detect_modbus_unit_keyword: the keyword cached for a client whose
\* read_holding_registers declares `params`; "None" stands for positional.
_detect_modbus_unit_keyword(params) ==
    IF "device_id" \in params THEN "device_id"
    ELSE IF "unit" \in params THEN "unit"
    ELSE IF "slave" \in params THEN "slave"
    ELSE "None"

\* No request was handed to the client yet.
NoRequest == [by |-> "none", method |-> "none", positional |-> << >>, kwargs |-> << >>]

\* __init__ on a client that declares `params`: the keyword is probed.
Probed(params) ==
    /\ client_params = params
    /\ _modbus_unit_keyword = _detect_modbus_unit_keyword(params)
    /\ last_call = NoRequest

\* _decode_value was not called on its own.
NotDecoded == [t |-> "pending", n |-> 0, d |-> 1, s |-> << >>]

NoDecode ==
    /\ dec_registers = << >>
    /\ dec_register = REGISTER_MAP[1]
    /\ dec_value = NotDecoded

\* No user input was given, no entry was created.
NoInput == [host |-> "", port |-> 0, unit_id |-> 0, scan_interval |-> 0]

\* A setup flow is created while `entries` are configured.
FlowNew(entries) ==
    /\ flow_pc = "new" /\ flow_input = NoInput /\ flow_errors = "none"
    /\ flow_address = 0 /\ flow_clients = 0 /\ flow_closed = 0 /\ flow_submits = 0
    /\ flow_configured = entries
    /\ flow_connect = "none" /\ flow_reads = << >> /\ flow_entry = NoInput

\* __init__: the coordinator after construction.
Constructed ==
    /\ connected = FALSE
    /\ holding = InitialHolding
    /\ data = NoData
    /\ poll_pc = "idle" /\ poll_idx = 0 /\ poll_data = NoData
    /\ poll_trigger = "none" /\ poll_outcome = "none" /\ poll_raised_at = "none"
    /\ polls_started = 0
    /\ refresh_requested = FALSE
    /\ w_pc = "idle" /\ w_address = 0 /\ w_value = 0
    /\ writes_started = 0
    /\ keep_alive_task = "None" /\ ka_cancel = FALSE /\ ka_error = FALSE
    /\ ka_alive = 0 /\ ka_request = NoWrite
    /\ poll_connect = "none" /\ poll_response = NoAnswer /\ poll_names = "none"
    /\ poll_reads = << >>
    /\ sd_pc = "idle" /\ shutdowns = 0 /\ close_calls = 0
    /\ data_at_start = NoData /\ poll_read_in = {} /\ data_read_in = {}
    /\ w_call = NoCall /\ w_response = << >> /\ w_names = 0 /\ refresh_by = 0
    /\ written = << >>
    /\ sent_at_start = NothingSent
    /\ last_sent = NothingSent

\* The coordinator on a current pymodbus client, whose methods declare device_id.
Init == Constructed /\ Probed({"device_id"}) /\ NoDecode /\ FlowNew({})

\* dict item assignment: d[k] = v
Put(d, k, v) == [x \in DOMAIN d \cup {k} |-> IF x = k THEN v ELSE d[x]]

\* What a transport call can answer: a result, an error result (isError()) or
\* an exception (ModbusException, timeout).  It answers a result only while
\* the connection is up.
Outcomes == {"ok", "error", "raise"}
CanAnswer(outcome) == outcome = "ok" => connected

\* client.connect() returns True or False, or raises.
ConnectOutcomes == {"true", "false", "raise"}

\* Mutant of Connects: the value connect() returned is not looked at.
M_Connects(outcome) == outcome # "raise"

\* `if not connected: raise UpdateFailed`: whether the call goes on after
\* connect() was answered with `outcome`.
Connects(outcome) == outcome = "true"

\* ------------------------------------------------------ keep-alive task
TaskDone(task) == task \in {"returned", "cancelled"}

\* Mutant of StartsTask: a task is created at every call.
M_StartsTask(task) == TRUE

\* async_start_keep_alive: whether the call creates a task.
StartsTask(task) == task = "None" \/ TaskDone(task)

\* async_start_keep_alive: the task handle after the call.
async_start_keep_alive(task) == IF StartsTask(task) THEN "created" ELSE task

\* The first run of the task: the loop reaches asyncio.sleep.
KeepAliveStart ==
    /\ keep_alive_task = "created" /\ ~ka_cancel
    /\ keep_alive_task' = "sleeping"
    /\ UNCHANGED <<auxVars, connected, holding, data, pollVars, refresh_requested, writeVars,
                   ka_cancel, ka_error, ka_alive, ka_request, sdVars, data_read_in,
                   refresh_by, written>>

\* Mutant of KeepAliveAfterSleep: the loop ends when it finds the client
\* disconnected.
M_KeepAliveAfterSleep(is_connected) == IF is_connected THEN "writing" ELSE "returned"

\* _keep_alive_loop after the sleep: the task state it moves to.
KeepAliveAfterSleep(is_connected) == IF is_connected THEN "writing" ELSE "sleeping"

\* Mutant of KeepAliveWrite: the loop writes 0.
M_KeepAliveWrite ==
    [method |-> "write_register", address |-> KEEP_ALIVE_REGISTER, value |-> 0]

\* _keep_alive_loop: the request it hands to the client.
KeepAliveWrite ==
    [method |-> "write_register", address |-> KEEP_ALIVE_REGISTER, value |-> 1]

\* The sleep is over: write_register(6000, 1) is called if the client is connected.
KeepAliveWake ==
    /\ keep_alive_task = "sleeping" /\ ~ka_cancel
    /\ keep_alive_task' = KeepAliveAfterSleep(connected)
    /\ ka_request' = IF keep_alive_task' = "writing" THEN KeepAliveWrite ELSE NoWrite
    /\ ka_error' = IF connected THEN FALSE ELSE ka_error
    /\ ka_alive' = IF TaskDone(keep_alive_task') THEN ka_alive - 1 ELSE ka_alive
    /\ UNCHANGED <<auxVars, connected, holding, data, pollVars, refresh_requested, writeVars,
                   ka_cancel, sdVars, data_read_in, refresh_by, written>>

\* Mutant of KeepAliveAfterWrite: an exception of the write leaves the loop.
M_KeepAliveAfterWrite(outcome) == IF outcome = "raise" THEN "returned" ELSE "sleeping"

\* _keep_alive_loop after the write was answered: an error result is logged, an
\* exception is caught and logged, and the loop goes on.
KeepAliveAfterWrite(outcome) == "sleeping"

KeepAliveWriteDone(outcome) ==
    /\ keep_alive_task = "writing" /\ ~ka_cancel
    /\ CanAnswer(outcome)
    /\ keep_alive_task' = KeepAliveAfterWrite(outcome)
    /\ ka_error' = (outcome # "ok")
    /\ ka_alive' = IF TaskDone(keep_alive_task') THEN ka_alive - 1 ELSE ka_alive
    /\ holding' = IF outcome = "ok"
                  THEN [holding EXCEPT ![ka_request.address] = ka_request.value]
                  ELSE holding
    /\ ka_request' = NoWrite
    /\ UNCHANGED <<auxVars, connected, data, pollVars, refresh_requested, writeVars,
                   ka_cancel, sdVars, data_read_in, refresh_by, written>>

\* CancelledError reaches the task: a task that never ran ends cancelled, the
\* loop catches the error at its await and returns.
KeepAliveCancelled ==
    /\ ka_cancel /\ ~TaskDone(keep_alive_task) /\ keep_alive_task # "None"
    /\ keep_alive_task' = IF keep_alive_task = "created" THEN "cancelled" ELSE "returned"
    /\ ka_alive' = ka_alive - 1
    /\ ka_request' = NoWrite
    /\ UNCHANGED <<auxVars, connected, holding, data, pollVars, refresh_requested, writeVars,
                   ka_cancel, ka_error, sdVars, data_read_in, refresh_by, written>>


\* --------------------------------------------------------------- poll cycle
\* Mutant of SnapshotAfterCycle: the dict is published however the cycle ended.
M_SnapshotAfterCycle(result, previous, collected) == collected

\* What the coordinator publishes when a cycle ends: the dict the cycle returns,
\* or the snapshot it already had when the cycle raises.
SnapshotAfterCycle(result, previous, collected) ==
    IF result = "ok" THEN collected ELSE previous

\* Mutant of LastRegister: the loop stops one entry early.
M_LastRegister(idx) == idx = Len(REGISTER_MAP) - 1

\* for register in REGISTER_MAP: the loop ends after the read of the last entry.
LastRegister(idx) == idx = Len(REGISTER_MAP)

\* Mutant of NextRegister: the loop skips every other entry.
M_NextRegister(idx) == idx + 2

\* for register in REGISTER_MAP: the entry the loop goes on with.
NextRegister(idx) == idx + 1

\* _read_register: the read handed to the client for `register`.
PollRead(register) ==
    [method |-> ReadMethod(register), address |-> register.address,
     count |-> ReadCount(register)]

\* The cycle starts its reads: `data` holds the capture time, the first catalog
\* register is requested.
BeginReading(cycle) ==
    /\ poll_pc' = "reading"
    /\ poll_idx' = 1
    /\ poll_reads' = <<PollRead(REGISTER_MAP[1])>>
    /\ poll_data' = Put(NoData, "last_update", TimeValue(cycle))
    /\ poll_read_in' = {cycle}

\* The cycle ends without a result: UpdateFailed or another exception leaves
\* _async_update_data.
PollRaises(result) ==
    /\ poll_pc' = "idle"
    /\ poll_idx' = 0
    /\ poll_trigger' = "none"
    /\ sent_at_start' = NothingSent
    /\ poll_outcome' = result
    /\ poll_raised_at' = CASE poll_pc = "connecting" -> "connect"
                            [] poll_idx = 1 -> "first_read"
                            [] OTHER -> "later_read"
    /\ data' = SnapshotAfterCycle(result, data, poll_data)
    /\ data_read_in' = SnapshotAfterCycle(result, data_read_in, poll_read_in)
    /\ poll_data' = NoData
    /\ poll_read_in' = {}
    /\ poll_connect' = "none"
    /\ poll_reads' = << >>

\* The scheduler calls _async_update_data: on its interval, or to serve the
\* refresh request that is pending.
PollStart ==
    /\ poll_pc = "idle"
    /\ polls_started < MaxPolls
    /\ refresh_requested' = FALSE
    /\ polls_started' = polls_started + 1
    /\ poll_trigger' = IF refresh_requested THEN "refresh" ELSE "interval"
    /\ poll_outcome' = "running"
    /\ poll_raised_at' = "none"
    /\ poll_connect' = "none"
    /\ poll_response' = NoAnswer
    /\ poll_names' = "none"
    /\ data_at_start' = data
    /\ sent_at_start' = last_sent
    /\ IF connected
       THEN BeginReading(polls_started + 1)
       ELSE /\ poll_pc' = "connecting"
            /\ poll_reads' = << >>
            /\ UNCHANGED <<poll_idx, poll_data, poll_read_in>>
    /\ UNCHANGED <<auxVars, connected, holding, data, writeVars, kaVars, sdVars, data_read_in, refresh_by, written>>

\* client.connect() of the cycle is answered.
PollConnected(outcome) ==
    /\ poll_pc = "connecting"
    /\ IF Connects(outcome)
       THEN /\ connected' = TRUE
            /\ keep_alive_task' = async_start_keep_alive(keep_alive_task)
            /\ ka_cancel' = IF StartsTask(keep_alive_task) THEN FALSE ELSE ka_cancel
            /\ ka_error' = IF StartsTask(keep_alive_task) THEN FALSE ELSE ka_error
            /\ ka_alive' = IF StartsTask(keep_alive_task) THEN ka_alive + 1 ELSE ka_alive
            /\ poll_connect' = IF StartsTask(keep_alive_task) THEN "created" ELSE "kept"
            /\ UNCHANGED ka_request
            /\ BeginReading(polls_started)
            /\ UNCHANGED <<data, poll_outcome, poll_raised_at, poll_trigger, sent_at_start,
                           data_read_in, poll_response, poll_names>>
       ELSE /\ PollRaises(IF outcome = "false" THEN "UpdateFailed" ELSE "exception")
            /\ poll_response' = PollAnswer("connect", outcome)
            /\ UNCHANGED poll_names
            /\ UNCHANGED <<connected, kaVars>>
    /\ UNCHANGED <<auxVars, holding, polls_started, refresh_requested, writeVars,
                   sdVars, data_at_start, refresh_by, written>>

\* Mutant of ReadRaises: isError() of the result is not looked at.
M_ReadRaises(outcome) == outcome = "raise"

\* _read_register: whether the read answered with `outcome` raises (the call
\* raised, or `if result.isError(): raise UpdateFailed`).
ReadRaises(outcome) == outcome # "ok"

\* f"Read error at register {register.address}: {result}": the address in the
\* message.
ReadErrorNames(register) == register.address

\* The read in flight is answered: the value is decoded and stored, and the
\* next register is requested or the dict is returned.
PollReadDone(outcome) ==
    /\ poll_pc = "reading"
    /\ CanAnswer(outcome)
    /\ LET register == REGISTER_MAP[poll_idx]
           raw_value == DeviceWords(ReadMethod(register), register.address,
                                    ReadCount(register), holding)
           collected == Put(poll_data, register.key, _decode_value(raw_value, register))
           read_in == poll_read_in \cup {polls_started}
       IN  IF ~ReadRaises(outcome)
           THEN IF LastRegister(poll_idx)
                THEN /\ poll_pc' = "idle"
                     /\ poll_idx' = 0
                     /\ poll_trigger' = "none"
                     /\ sent_at_start' = NothingSent
                     /\ poll_outcome' = "ok"
                     /\ poll_connect' = "none"
                     /\ poll_response' = PollAnswer("read", outcome)
                     /\ UNCHANGED <<poll_raised_at, poll_names, poll_reads>>
                     /\ data' = SnapshotAfterCycle("ok", data, collected)
                     /\ data_read_in' = SnapshotAfterCycle("ok", data_read_in, read_in)
                     /\ poll_data' = NoData
                     /\ poll_read_in' = {}
                     /\ written' = << >>
                ELSE /\ poll_idx' = NextRegister(poll_idx)
                     /\ poll_reads' = Append(poll_reads,
                                             PollRead(REGISTER_MAP[NextRegister(poll_idx)]))
                     /\ poll_data' = collected
                     /\ poll_read_in' = read_in
                     /\ UNCHANGED <<poll_pc, poll_outcome, poll_raised_at, poll_trigger,
                                    sent_at_start, poll_response, poll_names,
                                    data, data_read_in, written>>
                     /\ poll_connect' = "none"
           ELSE /\ PollRaises(IF outcome = "error" THEN "UpdateFailed" ELSE "exception")
                /\ poll_response' = PollAnswer("read", outcome)
                /\ poll_names' = IF outcome # "error" THEN "none"
                                 ELSE IF ReadErrorNames(register) = REGISTER_MAP[poll_idx].address
                                      THEN "failing_read" ELSE "other"
                /\ UNCHANGED written
    /\ UNCHANGED <<auxVars, connected, holding, polls_started, refresh_requested,
                   writeVars, kaVars, sdVars, data_at_start, refresh_by>>

\* ------------------------------------------------------------------- write
\* int(round(value)) for a value given in halves: Python rounds a tie to even.
IntRound(halves) ==
    IF halves % 2 = 0 THEN halves \div 2
    ELSE IF ((halves - 1) \div 2) % 2 = 0 THEN (halves - 1) \div 2
    ELSE (halves + 1) \div 2

\* The values the number entities are given, in halves: 6.0 and 16.0.
NumberInputs == {12, 32}

\* How a write call ends after `step` ("connect" or "write") was answered with
\* `outcome`: the step, the answer and what the call raises.
WriteResult(step, outcome) ==
    [step |-> step, answer |-> outcome,
     raises |-> CASE outcome \in {"ok", "true"} -> "nothing"
                  [] outcome \in {"error", "false"} -> "UpdateFailed"
                  [] OTHER -> "exception"]

Unanswered == [step |-> "none", answer |-> "none", raises |-> "nothing"]

\* async_write_holding_register is called: connect first if needed, else the
\* write_register request goes out.
WriteBegin(address, value, call) ==
    /\ w_pc = "idle"
    /\ writes_started < MaxWrites
    /\ writes_started' = writes_started + 1
    /\ w_address' = address
    /\ w_value' = value
    /\ w_call' = call
    /\ w_response' = Append(w_response, Unanswered)
    /\ w_names' = 0
    /\ w_pc' = IF connected THEN "writing" ELSE "connecting"
    /\ UNCHANGED <<auxVars, connected, holding, data, pollVars, refresh_requested,
                   last_sent, kaVars, sdVars, data_read_in, refresh_by, written>>

\* number.py async_set_native_value of the i-th number entity.
NumberSetNativeValue(i, halves) ==
    /\ NUMBER_DESCRIPTIONS[i].key \in DOMAIN data
    /\ WriteBegin(NUMBER_DESCRIPTIONS[i].address, IntRound(halves),
                  [entity |-> "number", halves |-> halves])

\* switch.py async_turn_on / async_turn_off of the alive switch.
SwitchTurnOn ==
    /\ "alive_register" \in DOMAIN data
    /\ WriteBegin(6000, 1, [entity |-> "switch", halves |-> 2])

SwitchTurnOff ==
    /\ "alive_register" \in DOMAIN data
    /\ WriteBegin(6000, 0, [entity |-> "switch", halves |-> 0])

\* client.connect() of the write call is answered.
WriteConnected(outcome) ==
    /\ w_pc = "connecting"
    /\ IF Connects(outcome)
       THEN /\ connected' = TRUE
            /\ w_pc' = "writing"
            /\ w_response' = [w_response EXCEPT ![writes_started] = WriteResult("connect", outcome)]
       ELSE /\ w_pc' = "idle"
            /\ w_response' = [w_response EXCEPT ![writes_started] = WriteResult("connect", outcome)]
            /\ UNCHANGED connected
    /\ UNCHANGED <<auxVars, holding, data, pollVars, refresh_requested, w_address, w_value,
                   writes_started, w_call, w_names, last_sent, kaVars, sdVars,
                   data_read_in, refresh_by, written>>

\* Mutant of RefreshAfterWrite: the result of the write is not looked at.
M_RefreshAfterWrite(outcome) == TRUE

\* async_write_holding_register: whether the refresh is requested after the
\* write was answered with `outcome`.
RefreshAfterWrite(outcome) == outcome = "ok"

\* Mutant of WriteErrorNames: the message carries the value.
M_WriteErrorNames(address, value) == value

\* f"Write error at register {address}: {result}": the address in the message.
WriteErrorNames(address, value) == address

\* The write in flight is answered.
WriteDone(outcome) ==
    /\ w_pc = "writing"
    /\ CanAnswer(outcome)
    /\ w_names' = IF outcome = "error" THEN WriteErrorNames(w_address, w_value) ELSE 0
    /\ w_response' = [w_response EXCEPT ![writes_started] = WriteResult("write", outcome)]
    /\ w_pc' = "idle"
    /\ IF outcome = "ok"
       THEN /\ holding' = [holding EXCEPT ![w_address] = w_value]
            /\ last_sent' = [last_sent EXCEPT ![w_address] = w_value]
            /\ written' = <<w_address, w_value>>
            /\ sent_at_start' = IF poll_pc = "idle" THEN sent_at_start
                                ELSE NothingSent
       ELSE UNCHANGED <<holding, last_sent, written, sent_at_start>>
    /\ IF RefreshAfterWrite(outcome)
       THEN /\ refresh_requested' = TRUE
            /\ refresh_by' = writes_started
       ELSE UNCHANGED <<refresh_requested, refresh_by>>
    /\ UNCHANGED <<auxVars, connected, data, poll_pc, poll_idx, poll_data, poll_trigger,
                   poll_outcome, poll_raised_at, polls_started, data_at_start, poll_read_in,
                   poll_connect, poll_response, poll_names, poll_reads,
                   w_address, w_value, writes_started, w_call,
                   kaVars, sdVars, data_read_in>>

\* ---------------------------------------------------------------- shutdown
\* Mutant of ShutdownCloses: CancelledError of the awaited task is not caught.
M_ShutdownCloses(outcome) == outcome = "returned"

\* async_shutdown: whether client.close() is reached after the await of the
\* cancelled task ended with `outcome`.
ShutdownCloses(outcome) == outcome \in {"returned", "CancelledError"}

\* async_shutdown is called: a live task is cancelled and awaited, otherwise
\* the client is closed at once.
ShutdownCall ==
    /\ sd_pc # "awaiting"
    /\ shutdowns < MaxShutdowns
    /\ shutdowns' = shutdowns + 1
    /\ IF keep_alive_task # "None" /\ ~TaskDone(keep_alive_task)
       THEN /\ ka_cancel' = TRUE
            /\ sd_pc' = "awaiting"
            /\ UNCHANGED <<connected, close_calls>>
       ELSE /\ connected' = FALSE
            /\ close_calls' = close_calls + 1
            /\ sd_pc' = "done"
            /\ UNCHANGED ka_cancel
    /\ UNCHANGED <<auxVars, holding, data, pollVars, refresh_requested, writeVars,
                   keep_alive_task, ka_error, ka_alive, ka_request, data_read_in,
                   refresh_by, written>>

\* The awaited task has ended: the await returns or raises CancelledError.
ShutdownResume ==
    /\ sd_pc = "awaiting"
    /\ TaskDone(keep_alive_task)
    /\ sd_pc' = "done"
    /\ UNCHANGED shutdowns
    /\ IF ShutdownCloses(IF keep_alive_task = "cancelled" THEN "CancelledError" ELSE "returned")
       THEN /\ connected' = FALSE
            /\ close_calls' = close_calls + 1
       ELSE UNCHANGED <<connected, close_calls>>
    /\ UNCHANGED <<auxVars, holding, data, pollVars, refresh_requested, writeVars, kaVars,
                   data_read_in, refresh_by, written>>

\* ------------------------------------------------------------- environment
\* The TCP connection is lost.
ConnectionLost ==
    /\ connected
    /\ connected' = FALSE
    /\ UNCHANGED <<auxVars, holding, data, pollVars, refresh_requested, writeVars, kaVars, sdVars,
                   data_read_in, refresh_by, written>>

Next ==
    \/ PollStart
    \/ \E outcome \in ConnectOutcomes : PollConnected(outcome)
    \/ \E outcome \in Outcomes : PollReadDone(outcome)
    \/ \E i \in 1..Len(NUMBER_DESCRIPTIONS), halves \in NumberInputs : NumberSetNativeValue(i, halves)
    \/ SwitchTurnOn
    \/ SwitchTurnOff
    \/ \E outcome \in ConnectOutcomes : WriteConnected(outcome)
    \/ \E outcome \in Outcomes : WriteDone(outcome)
    \/ KeepAliveStart
    \/ KeepAliveWake
    \/ \E outcome \in Outcomes : KeepAliveWriteDone(outcome)
    \/ KeepAliveCancelled
    \/ ShutdownCall
    \/ ShutdownResume
    \/ ConnectionLost

Spec == Init /\ [][Next]_vars


\* The event loop runs a task that is ready: the sleep of the keep-alive loop
\* ends after KEEP_ALIVE_INTERVAL seconds, every transport call is answered or
\* times out, and a cancelled task is resumed with CancelledError.
FairSpec ==
    /\ Spec
    /\ WF_vars(KeepAliveStart)
    /\ WF_vars(KeepAliveWake)
    /\ WF_vars(\E outcome \in Outcomes : KeepAliveWriteDone(outcome))
    /\ WF_vars(KeepAliveCancelled)

\* ------------------------------------------------- _decode_value on its own
\* The words given to _decode_value.  A numeric word stays below 2^15 so that
\* (hi << 16) + lo fits the checker's integers; the text words hold "  ", " A",
\* "A ", "A" NUL, "AB", NUL NUL, a two-byte UTF-8 sequence and two bytes that
\* belong to none.
NumericWords == {0, 1, 500, 32767}
TextWords == {0, 8224, 8257, 16672, 16640, 16706, 50089, 65535}

SeqsUpTo(S, n) == UNION {[1..k -> S] : k \in 0..n}

DecodeInputs(register) ==
    SeqsUpTo(IF register.data_type = "string" THEN TextWords ELSE NumericWords, MaxWords)

\* A catalog descriptor and a list of words are chosen.
DecodeInit ==
    /\ Constructed
    /\ Probed({"device_id"})
    /\ FlowNew({})
    /\ \E i \in 1..Len(REGISTER_MAP) :
          /\ dec_register = REGISTER_MAP[i]
          /\ dec_registers \in DecodeInputs(REGISTER_MAP[i])
    /\ dec_value = NotDecoded

\* _decode_value(registers, register) is called.
Decode ==
    /\ dec_value = NotDecoded
    /\ dec_value' = _decode_value(dec_registers, dec_register)
    /\ UNCHANGED <<coordVars, callVars, flowVars, dec_registers, dec_register>>

DecodeNext == Decode

DecodeSpec == DecodeInit /\ [][DecodeNext]_vars

\* ------------------------------------------- the arguments of the requests
\* _get_modbus_call_kwargs: the keyword arguments with the unit id under the
\* cached keyword, or the unit id to pass positionally.
_get_modbus_call_kwargs(keyword, unit_id, kwargs) ==
    IF keyword # "None"
    THEN [kwargs |-> Put(kwargs, keyword, unit_id), positional |-> << >>]
    ELSE [kwargs |-> kwargs, positional |-> <<unit_id>>]

\* A request as the client receives it.
Request(by, method, args) ==
    [by |-> by, method |-> method, positional |-> args.positional, kwargs |-> args.kwargs]

\* The values the write call is given.
WriteValues == {0, 1, 6, 16}

\* A coordinator is constructed on a client whose methods declare any of the
\* unit-id names.
CallInit ==
    /\ Constructed
    /\ NoDecode
    /\ FlowNew({})
    /\ \E params \in SUBSET UnitKeywords : Probed(params)

\* _read_register hands its request to the client.
ReadRequest(i) ==
    /\ last_call' = Request("poll", ReadMethod(REGISTER_MAP[i]),
                            _get_modbus_call_kwargs(_modbus_unit_keyword, DEFAULT_UNIT_ID,
                                [address |-> REGISTER_MAP[i].address,
                                 count |-> ReadCount(REGISTER_MAP[i])]))
    /\ UNCHANGED <<coordVars, decodeVars, flowVars, client_params, _modbus_unit_keyword>>

\* async_write_holding_register hands its request to the client.
WriteRequest(address, value) ==
    /\ last_call' = Request("write", "write_register",
                            _get_modbus_call_kwargs(_modbus_unit_keyword, DEFAULT_UNIT_ID,
                                [address |-> address, value |-> value]))
    /\ UNCHANGED <<coordVars, decodeVars, flowVars, client_params, _modbus_unit_keyword>>

\* _keep_alive_loop hands its request to the client.
KeepAliveRequest ==
    /\ last_call' = Request("keep_alive", "write_register",
                            _get_modbus_call_kwargs(_modbus_unit_keyword, DEFAULT_UNIT_ID,
                                [address |-> KeepAliveWrite.address,
                                 value |-> KeepAliveWrite.value]))
    /\ UNCHANGED <<coordVars, decodeVars, flowVars, client_params, _modbus_unit_keyword>>

CallNext ==
    \/ \E i \in 1..Len(REGISTER_MAP) : ReadRequest(i)
    \/ \E address \in HoldingAddresses, value \in WriteValues : WriteRequest(address, value)
    \/ KeepAliveRequest

CallSpec == CallInit /\ [][CallNext]_vars

\* ------------------------------------------ the setup flow (config_flow.py)
\* What the user submits: the form's schema admits a host, a port, a unit id of
\* 1..255 and a scan interval of 2..300.
Hosts == {"192.168.1.50", "charger.local"}
UnitIds == {1, DEFAULT_UNIT_ID}
UserInputs ==
    [host : Hosts, port : {DEFAULT_PORT}, unit_id : UnitIds,
     scan_interval : {DEFAULT_SCAN_INTERVAL}]

\* f"{host}:{port}:{unit_id}": the scan interval is no part of the unique id.
UniqueId(user_input) == <<user_input.host, user_input.port, user_input.unit_id>>

UniqueIds == {UniqueId(user_input) : user_input \in UserInputs}

\* test_addresses = [100, 1000]
TEST_ADDRESSES == <<100, 1000>>

\* The probe read handed to the test client, with what it answered.
ProbeRead(address, user_input, outcome) ==
    [method |-> "read_input_registers", address |-> address, count |-> 1,
     slave |-> user_input.unit_id, answer |-> outcome]

\* A setup flow is created; any of the unique ids may be configured already.
FlowInit ==
    /\ Constructed
    /\ Probed({"device_id"})
    /\ NoDecode
    /\ \E entries \in SUBSET UniqueIds : FlowNew(entries)

\* async_step_user(None): the form is shown without errors.
FlowShowForm ==
    /\ flow_pc = "new"
    /\ flow_pc' = "form"
    /\ UNCHANGED <<coordVars, decodeVars, callVars, flow_input, flow_errors, flow_address,
                   flow_clients, flow_closed, flow_submits, flow_configured, flow_connect,
                   flow_reads, flow_entry>>

\* async_step_user(user_input): the flow aborts if the unique id is configured;
\* otherwise a test client is created and connect() is called.
FlowSubmit(user_input) ==
    /\ flow_pc = "form"
    /\ flow_submits < MaxSubmits
    /\ flow_submits' = flow_submits + 1
    /\ flow_input' = user_input
    /\ flow_errors' = "none"
    /\ flow_connect' = "none"
    /\ flow_reads' = << >>
    /\ IF UniqueId(user_input) \in flow_configured
       THEN /\ flow_pc' = "aborted"
            /\ UNCHANGED flow_clients
       ELSE /\ flow_pc' = "connecting"
            /\ flow_clients' = flow_clients + 1
    /\ UNCHANGED <<coordVars, decodeVars, callVars, flow_address, flow_closed,
                   flow_configured, flow_entry>>

\* Mutant of ClosesClient: close() is the last statement of the try body.
M_ClosesClient(raised) == ~raised

\* finally: client.close() runs whether or not the try body raised.
ClosesClient(raised) == TRUE

\* The step leaves its try statement with `errors`: the client is closed, and
\* the entry is created if errors is empty, else the form is shown again.
FlowEnd(errors, raised) ==
    /\ flow_errors' = errors
    /\ flow_closed' = IF ClosesClient(raised) THEN flow_closed + 1 ELSE flow_closed
    /\ flow_address' = 0
    /\ IF errors = "none"
       THEN /\ flow_pc' = "entry"
            /\ flow_entry' = flow_input
       ELSE /\ flow_pc' = "form"
            /\ UNCHANGED flow_entry

\* connect() of the test client is answered.
FlowConnected(outcome) ==
    /\ flow_pc = "connecting"
    /\ flow_connect' = outcome
    /\ IF outcome = "true"
       THEN /\ flow_pc' = "reading"
            /\ flow_address' = 1
            /\ UNCHANGED <<flow_errors, flow_closed, flow_entry>>
       ELSE FlowEnd("cannot_connect", outcome = "raise")
    /\ UNCHANGED <<coordVars, decodeVars, callVars, flow_input, flow_clients, flow_submits,
                   flow_configured, flow_reads>>

\* The probe read in flight is answered: a result ends the loop, an error
\* result goes on with the next test address, an exception leaves the try.
FlowReadDone(outcome) ==
    /\ flow_pc = "reading"
    /\ flow_reads' = Append(flow_reads,
                            ProbeRead(TEST_ADDRESSES[flow_address], flow_input, outcome))
    /\ CASE outcome = "ok" -> FlowEnd("none", FALSE)
         [] outcome = "raise" -> FlowEnd("cannot_connect", TRUE)
         [] OTHER ->
              IF flow_address < Len(TEST_ADDRESSES)
              THEN /\ flow_address' = flow_address + 1
                   /\ UNCHANGED <<flow_pc, flow_errors, flow_closed, flow_entry>>
              ELSE FlowEnd("invalid_slave", FALSE)
    /\ UNCHANGED <<coordVars, decodeVars, callVars, flow_input, flow_clients, flow_submits,
                   flow_configured, flow_connect>>

FlowNext ==
    \/ FlowShowForm
    \/ \E user_input \in UserInputs : FlowSubmit(user_input)
    \/ \E outcome \in ConnectOutcomes : FlowConnected(outcome)
    \/ \E outcome \in Outcomes : FlowReadDone(outcome)

FlowSpec == FlowInit /\ [][FlowNext]_vars

\* ------------------------------------------------------------------ claims
\* The coroutines that have a request outstanding on the client.
InFlight ==
    {p \in {"poll", "write", "keep_alive"} :
        \/ p = "poll" /\ poll_pc = "reading"
        \/ p = "write" /\ w_pc = "writing"
        \/ p = "keep_alive" /\ keep_alive_task = "writing"}

\* A cycle returns its dict in this step: a snapshot is published.
Published == poll_outcome = "running" /\ poll_outcome' = "ok"

\* The catalog key read at a holding address.
KeyAt(address) ==
    REGISTER_MAP[CHOOSE i \in 1..Len(REGISTER_MAP) : REGISTER_MAP[i].address = address].key

\* C1: at most one transport request is outstanding at any time: a read of the
\* poll cycle, the write of async_write_holding_register and the keep-alive
\* write are never in flight together.
C1_OneRequestOutstanding == Cardinality(InFlight) <= 1

\* C2: a poll cycle that failed (connect failure or a read error on any
\* register) leaves the published snapshot as it was when the cycle started.
C2_FailedPollKeepsSnapshot ==
    poll_outcome \in {"UpdateFailed", "exception"} => data = data_at_start

\* C2 witness: a cycle failed on a read after the first one, and a snapshot
\* had been published before.
C2_Witness ==
    /\ poll_outcome = "UpdateFailed"
    /\ poll_raised_at = "later_read"
    /\ data # NoData

\* C3: every published snapshot holds a value for every key of REGISTER_MAP
\* (and the capture time), all read in the one cycle that captured it.
C3_SnapshotComplete ==
    data # NoData =>
        /\ DOMAIN data = RegisterKeys \cup {"last_update"}
        /\ data_read_in = {data["last_update"].n}
        /\ \A k \in RegisterKeys : data[k].t \in {"num", "str", "none"}

\* C3 witness: a snapshot is published and a later cycle has collected a
\* prefix of the catalog.
C3_Witness ==
    /\ data # NoData
    /\ poll_pc = "reading"
    /\ poll_idx > 5
    /\ data["last_update"].n < polls_started

\* C4: the first snapshot published after a successful write shows the written
\* value at the key of the written register.
C4_NextSnapshotShowsWrite ==
    [][(Published /\ written # << >>) =>
            data'[KeyAt(written[1])] = NumValue(written[2], 1)]_vars

\* C5: the number entity given 16 for charging_current_limit sends the raw
\* value 16 to register 5004, and a cycle that starts after that write
\* publishes charging_current_limit = 16.
C5_Write16ThenPoll ==
    [][/\ (w_pc' = "writing" /\ w_call' = [entity |-> "number", halves |-> 32]
              /\ w_address' = 5004) => w_value' = 16
       /\ (Published /\ sent_at_start[5004] = 16) =>
              data'["charging_current_limit"] = NumValue(16, 1)]_vars

\* C5 witness: 16 was written to register 5004 and the snapshot of a later
\* cycle shows it.
C5_Witness ==
    /\ last_sent[5004] = 16
    /\ w_call = [entity |-> "number", halves |-> 32]
    /\ poll_outcome = "ok"
    /\ "charging_current_limit" \in DOMAIN data
    /\ data["charging_current_limit"] = NumValue(16, 1)

\* C6: a refresh is requested, and a cycle serves it, only after the write
\* that requested it was answered with a result that is no error.
C6_RefreshAfterWriteAnswered ==
    (refresh_requested \/ poll_trigger = "refresh") =>
        /\ refresh_by \in 1..Len(w_response)
        /\ w_response[refresh_by] = WriteResult("write", "ok")
        /\ ~(w_pc = "writing" /\ writes_started = refresh_by)

\* C6 witness: a cycle that serves a refresh request has reads in flight.
C6_Witness == poll_trigger = "refresh" /\ poll_pc = "reading" /\ poll_idx > 1

\* C7: every call of async_shutdown that has ended has closed the client.
C7_ShutdownCloses == sd_pc # "awaiting" => close_calls = shutdowns

\* C7 witness: shutdown ended after the await of the cancelled task raised
\* CancelledError.
C7_Witness == sd_pc = "done" /\ keep_alive_task = "cancelled" /\ close_calls > 0

\* C8: the keep-alive loop calls write_register at no time after shutdown
\* called client.close().
C8_NoKeepAliveWriteAfterClose ==
    [][(keep_alive_task' = "writing" /\ keep_alive_task # "writing") =>
            close_calls = 0]_vars

\* A step that calls connect, a read or a write on the client, or that creates
\* or runs the keep-alive task.
UsesClient ==
    \/ poll_pc' \in {"connecting", "reading"} /\ <<poll_pc', poll_idx'>> # <<poll_pc, poll_idx>>
    \/ w_pc' \in {"connecting", "writing"} /\ w_pc' # w_pc
    \/ keep_alive_task' \in {"created", "sleeping", "writing"}
       /\ keep_alive_task' # keep_alive_task

\* C9: once async_shutdown has ended, the coordinator never again connects,
\* reads, writes or runs a keep-alive task.
C9_ShutdownTerminal == [][sd_pc = "done" => ~UsesClient]_vars

\* C10: a failed keep-alive write never ends the loop: the task ends only
\* after it was cancelled, and after a failure another write is attempted
\* unless the task is cancelled or the client is not connected.
C10_KeepAliveSurvivesErrors ==
    /\ [](TaskDone(keep_alive_task) => ka_cancel)
    /\ (ka_error /\ ~ka_cancel) ~> (~ka_error \/ ka_cancel \/ ~connected)

\* C10 witness: a keep-alive write failed and the loop is back in its sleep,
\* not cancelled, with the client connected.
C10_Witness ==
    /\ ka_error
    /\ keep_alive_task = "sleeping"
    /\ ~ka_cancel
    /\ connected

\* The keep-alive task exists and has not ended.
TaskAlive == keep_alive_task \in {"created", "sleeping", "writing"}

\* The step in which the poll's connect returned true and
\* async_start_keep_alive was called.
PollStartsKeepAlive == poll_pc = "connecting" /\ poll_pc' = "reading"

\* C11: async_start_keep_alive called while a keep-alive task is running
\* creates no task and leaves the handle as it is, and at most one keep-alive
\* loop is alive in every state: the one the handle names.
C11_StartKeepAliveIdempotent ==
    [][/\ (PollStartsKeepAlive /\ TaskAlive) =>
              (keep_alive_task' = keep_alive_task /\ ka_alive' = ka_alive)
       /\ ka_alive' <= 1
       /\ ka_alive' = (IF TaskAlive' THEN 1 ELSE 0)]_vars

\* C11 witness: a cycle connected while the task of an earlier cycle was
\* running, and that task is still the one alive.
C11_Witness == poll_connect = "kept" /\ TaskAlive /\ ka_alive = 1

PollConnectFalse ==
    poll_pc = "connecting" /\ poll_response' = PollAnswer("connect", "false")

WriteConnectFalse ==
    /\ w_pc = "connecting"
    /\ w_response'[writes_started] = WriteResult("connect", "false")

\* What neither call touches when its connect() returned false: the
\* connection, the charger's registers, the refresh request, the keep-alive
\* task and the published snapshot.
ConnectFailureLeaves ==
    /\ connected' = connected
    /\ holding' = holding
    /\ refresh_requested' = refresh_requested
    /\ keep_alive_task' = keep_alive_task /\ ka_alive' = ka_alive
    /\ data' = data

\* C13: when connect() returns false, the poll cycle and the write call each
\* end with UpdateFailed after that one connect attempt: the call is over, no
\* read or write was issued, the connection is as it was (disconnected if it
\* was), no refresh is requested and no keep-alive task is started.
C13_ConnectFalseFailsOnce ==
    [][/\ PollConnectFalse =>
              /\ poll_outcome' = "UpdateFailed" /\ poll_raised_at' = "connect"
              /\ poll_pc' = "idle" /\ poll_idx' = 0
              /\ w_pc' = w_pc
              /\ ConnectFailureLeaves
       /\ WriteConnectFalse =>
              /\ w_response'[writes_started].raises = "UpdateFailed"
              /\ w_pc' = "idle"
              /\ last_sent' = last_sent
              /\ poll_pc' = poll_pc /\ poll_idx' = poll_idx
              /\ ConnectFailureLeaves]_vars

\* C13 witness: a write call and then a poll cycle both ended on a connect()
\* that returned false, and the client is disconnected.
C13_Witness ==
    /\ poll_response = PollAnswer("connect", "false")
    /\ poll_outcome = "UpdateFailed"
    /\ w_pc = "idle" /\ writes_started > 0
    /\ w_response[writes_started] = WriteResult("connect", "false")
    /\ ~connected

\* C14: every failure of a poll cycle or of a write call is UpdateFailed: no
\* other exception leaves _async_update_data or async_write_holding_register.
C14_FailuresAreUpdateFailed ==
    /\ poll_outcome # "exception"
    /\ \A i \in DOMAIN w_response : w_response[i].raises # "exception"

\* The step in which write_register of the write call returned an error result.
WriteAnsweredError ==
    /\ w_pc = "writing"
    /\ w_response'[writes_started] = WriteResult("write", "error")

\* C15: when write_register returns an error result, the write call ends with
\* UpdateFailed naming the address, requests no refresh, leaves the published
\* snapshot as it is and does not close the client.
C15_WriteErrorNoRefresh ==
    [][WriteAnsweredError =>
            /\ w_response'[writes_started].raises = "UpdateFailed"
            /\ w_names' = w_address
            /\ w_pc' = "idle"
            /\ refresh_requested' = refresh_requested /\ refresh_by' = refresh_by
            /\ data' = data
            /\ connected' = connected /\ close_calls' = close_calls
            /\ holding' = holding]_vars

\* C15 witness: the write of 16 to register 5004 was answered with an error
\* result; no refresh is pending and the client is connected.
C15_Witness ==
    /\ w_pc = "idle" /\ writes_started > 0
    /\ w_response[writes_started] = WriteResult("write", "error")
    /\ w_address = 5004 /\ w_value = 16 /\ w_names = 5004
    /\ ~refresh_requested
    /\ connected

\* The step in which a read of the poll cycle returned an error result.
ReadAnsweredError ==
    poll_pc = "reading" /\ poll_response' = PollAnswer("read", "error")

\* C16: a read error on any catalog register ends the cycle at that register
\* with UpdateFailed naming its address: no later register is read in the
\* cycle, the client is not closed and stays connected if it was, and the
\* next cycle, finding it connected, starts reading without a connect attempt.
C16_ReadErrorAbortsCycle ==
    [][/\ ReadAnsweredError =>
              /\ poll_outcome' = "UpdateFailed"
              /\ poll_raised_at' = (IF poll_idx = 1 THEN "first_read" ELSE "later_read")
              /\ poll_names' = "failing_read"
              /\ poll_pc' = "idle" /\ poll_idx' = 0
              /\ connected' = connected /\ close_calls' = close_calls
       /\ (poll_pc = "idle" /\ poll_pc' # "idle"
              /\ poll_response = PollAnswer("read", "error") /\ connected) =>
              (poll_pc' = "reading" /\ poll_idx' = 1)]_vars

\* C16 witness: a cycle ended on a read error at a later register, the client
\* is connected and was never closed, and another cycle can start.
C16_Witness ==
    /\ poll_response = PollAnswer("read", "error")
    /\ poll_outcome = "UpdateFailed" /\ poll_raised_at = "later_read"
    /\ poll_names = "failing_read"
    /\ polls_started < MaxPolls
    /\ connected /\ close_calls = 0

\* _decode_value has returned.
Decoded == dec_value # NotDecoded

\* a | b, bit by bit.
RECURSIVE BitOr(_, _)
BitOr(a, b) ==
    IF a = 0 THEN b
    ELSE IF b = 0 THEN a
    ELSE (IF a % 2 = 1 \/ b % 2 = 1 THEN 1 ELSE 0) + 2 * BitOr(a \div 2, b \div 2)

\* C17: a UINT32 descriptor decodes words [hi, lo, ...] to (hi << 16 | lo) * scale
\* and fewer than two words to None; a UINT16 descriptor decodes to the first
\* word * scale and no word to None; None is returned as it is, not scaled.
C17_NumericDecode ==
    Decoded =>
        /\ dec_register.data_type = "uint32" =>
              dec_value =
                 IF Len(dec_registers) < 2 THEN NoneValue
                 ELSE NumValue(BitOr(dec_registers[1] * 65536, dec_registers[2])
                                  * dec_register.scale_num,
                               dec_register.scale_den)
        /\ dec_register.data_type = "uint16" =>
              dec_value =
                 IF Len(dec_registers) = 0 THEN NoneValue
                 ELSE NumValue(dec_registers[1] * dec_register.scale_num,
                               dec_register.scale_den)

\* C17 witness: charged_energy (UINT32, scale 0.001) decoded from [1, 500].
C17_Witness ==
    /\ dec_register.key = "charged_energy"
    /\ dec_registers = <<1, 500>>
    /\ dec_value = NumValue(66036, 1000)

\* The catalog entry with this key.
Descriptor(key) ==
    REGISTER_MAP[CHOOSE i \in 1..Len(REGISTER_MAP) : REGISTER_MAP[i].key = key]

\* C18 as stated: meter_reading is the UINT32 input register 1036 with scale
\* 0.001, and a poll that reads the words [1, 500] for it publishes 66.036.
C18_MeterReadingScaledBy1000th ==
    data # NoData =>
        /\ Descriptor("meter_reading") =
               RegisterDef("meter_reading", 1036, "input", "uint32", 1, 1, 1000)
        /\ data["meter_reading"] = NumValue(66036, 1000)

\* C18 amended: meter_reading is the UINT32 input register 1036 with scale
\* 0.1, and a poll that reads the words [1, 500] for it publishes
\* (1 << 16 | 500) * 0.1 = 6603.6.
C18_MeterReadingScaledBy10th ==
    data # NoData =>
        /\ Descriptor("meter_reading") =
               RegisterDef("meter_reading", 1036, "input", "uint32", 1, 1, 10)
        /\ data["meter_reading"] = NumValue(66036, 10)

\* C18 witness: a poll read [1, 500] at input register 1036 and published
\* its snapshot.
C18_Witness ==
    /\ data # NoData
    /\ DeviceWords("read_input_registers", 1036, 2, holding) = <<1, 500>>
    /\ data["meter_reading"] = NumValue(66036, 10)

\* The bytes of a list of words, word by word: high byte, low byte.
RECURSIVE HiLo(_)
HiLo(words) ==
    IF words = << >> THEN << >>
    ELSE <<words[1] \div 256, words[1] % 256>> \o HiLo(Tail(words))

Ascii(b) == \A i \in 1..Len(b) : b[i] < 128

\* A NUL or a space.
Pad(c) == c = 0 \/ c = 32

\* r is b without its trailing run of NULs and spaces.
TrailingPadRemoved(r, b) ==
    IF \A i \in 1..Len(b) : Pad(b[i]) THEN r = << >>
    ELSE \E j \in 1..Len(b) :
            /\ ~Pad(b[j])
            /\ \A k \in (j + 1)..Len(b) : Pad(b[k])
            /\ r = SubSeq(b, 1, j)

\* r is b without its leading and without its trailing run of NULs and spaces.
OuterPadRemoved(r, b) ==
    IF \A i \in 1..Len(b) : Pad(b[i]) THEN r = << >>
    ELSE \E i, j \in 1..Len(b) :
            /\ ~Pad(b[i]) /\ ~Pad(b[j])
            /\ \A k \in 1..(i - 1) : Pad(b[k])
            /\ \A k \in (j + 1)..Len(b) : Pad(b[k])
            /\ r = SubSeq(b, i, j)

\* b neither starts nor ends with a NUL or a space.
AlreadyTrimmed(b) == b = << >> \/ (~Pad(b[1]) /\ ~Pad(b[Len(b)]))

\* A STRING descriptor was decoded from words that hold ASCII bytes.
AsciiStringDecoded ==
    Decoded /\ dec_register.data_type = "string" /\ Ascii(HiLo(dec_registers))

\* C19 as stated: a STRING descriptor decodes ASCII words to their bytes, high
\* then low, in order, with exactly the trailing run of NULs and spaces
\* removed; the result is a string, never scaled, and an input that is
\* already trimmed is returned unchanged.
C19_StringDecodeTrailingOnly ==
    AsciiStringDecoded =>
        /\ dec_value.t = "str" /\ dec_value.n = 0 /\ dec_value.d = 1
        /\ TrailingPadRemoved(dec_value.s, HiLo(dec_registers))
        /\ AlreadyTrimmed(HiLo(dec_registers)) => dec_value.s = HiLo(dec_registers)

\* C19 amended: as stated, but the leading run of NULs and spaces is removed
\* as well as the trailing one; the characters between them are kept.
C19_StringDecodeTrimmed ==
    AsciiStringDecoded =>
        /\ dec_value.t = "str" /\ dec_value.n = 0 /\ dec_value.d = 1
        /\ OuterPadRemoved(dec_value.s, HiLo(dec_registers))
        /\ AlreadyTrimmed(HiLo(dec_registers)) => dec_value.s = HiLo(dec_registers)

\* C19 witness: serial_number decoded from " A", "A ", NUL NUL gives "AA".
C19_Witness ==
    /\ dec_register.key = "serial_number"
    /\ dec_registers = <<8257, 16672, 0>>
    /\ dec_value = StrValue(<<65, 65>>)

\* The argument form the claim names for a client that declares `params`.
UnitForm(params) ==
    CASE "device_id" \in params -> "device_id"
      [] "unit" \in params /\ "device_id" \notin params -> "unit"
      [] "slave" \in params /\ params \cap {"device_id", "unit"} = {} -> "slave"
      [] OTHER -> "positional"

\* The request passes the unit id in the form `form` and in no other.
UnitPassedAs(call, form) ==
    IF form = "positional"
    THEN /\ call.positional = <<DEFAULT_UNIT_ID>>
         /\ DOMAIN call.kwargs \cap UnitKeywords = {}
    ELSE /\ call.positional = << >>
         /\ DOMAIN call.kwargs \cap UnitKeywords = {form}
         /\ call.kwargs[form] = DEFAULT_UNIT_ID

\* C20: the keyword cached at construction is the one the client's signature
\* gives (device_id, else unit, else slave, else positional) and stays that,
\* and every request of poll, write and keep-alive passes the unit id in that
\* one form.
C20_UnitKeywordCachedOnce ==
    /\ _modbus_unit_keyword =
          (IF UnitForm(client_params) = "positional" THEN "None" ELSE UnitForm(client_params))
    /\ last_call # NoRequest => UnitPassedAs(last_call, UnitForm(client_params))

\* C20 witness: on a client that declares unit and slave, the keep-alive write
\* passes the unit id as unit.
C20_Witness ==
    /\ client_params = {"unit", "slave"}
    /\ last_call.by = "keep_alive"
    /\ last_call.kwargs = [address |-> 6000, value |-> 1, unit |-> 255]

\* The read the catalog asks for: the bank `register` names, its address, and
\* two words for uint32, `count` words for a string, one word for uint16.
CatalogRead(register) ==
    [method |-> IF register.input_type = "holding" THEN "read_holding_registers"
                ELSE "read_input_registers",
     address |-> register.address,
     count |-> CASE register.data_type = "uint32" -> 2
                 [] register.data_type = "string" -> register.count
                 [] OTHER -> 1]

\* The reads of the first n catalog entries, in catalog order.
CatalogReads(n) == [i \in 1..n |-> CatalogRead(REGISTER_MAP[i])]

\* A read of the running cycle is answered in this step and does not raise.
ReadStored == poll_pc = "reading" /\ poll_idx' # poll_idx /\ poll_outcome' \in {"running", "ok"}

\* The dict of the running cycle after the step.
Collected == IF Published THEN data' ELSE poll_data'

\* C21: a poll cycle that returns its dict has issued exactly one read per
\* REGISTER_MAP descriptor, in catalog order, each on the bank the descriptor
\* names and with 2 words for uint32, the descriptor's count for a string and
\* 1 for uint16; every answer is decoded and stored under the descriptor's key.
C21_OneReadPerDescriptor ==
    /\ [](poll_pc = "reading" => poll_reads = CatalogReads(poll_idx))
    /\ [](poll_outcome = "ok" => poll_reads = CatalogReads(Len(REGISTER_MAP)))
    /\ [][ReadStored =>
            LET register == REGISTER_MAP[poll_idx]
                read == CatalogRead(register)
                answer == DeviceWords(read.method, read.address, read.count, holding)
            IN  /\ DOMAIN Collected = DOMAIN poll_data \cup {register.key}
                /\ Collected[register.key] = _decode_value(answer, register)
                /\ \A k \in DOMAIN poll_data \ {register.key} :
                       Collected[k] = poll_data[k]]_vars

\* C21 witness: a cycle returned its dict after 37 reads, among them a string
\* read of 25 words, a two-word read and a read of the holding bank, and the
\* snapshot holds the decoded serial number.
C21_Witness ==
    /\ poll_outcome = "ok"
    /\ Len(poll_reads) = Len(REGISTER_MAP)
    /\ poll_reads[1] = [method |-> "read_input_registers", address |-> 100, count |-> 25]
    /\ poll_reads[6] = [method |-> "read_input_registers", address |-> 290, count |-> 2]
    /\ poll_reads[34] = [method |-> "read_holding_registers", address |-> 2000, count |-> 1]
    /\ data["serial_number"] = StrValue(<<87, 85, 50>>)
    /\ data["failsafe_current"] = NumValue(10, 1)

\* A step of the keep-alive loop: the task leaves the state it was in.
KeepAliveStep ==
    /\ keep_alive_task \in {"created", "sleeping", "writing"}
    /\ keep_alive_task' # keep_alive_task

\* C22: the keep-alive loop only ever writes the value 1 to register 6000, and
\* only when it found the client connected after its sleep; a step of the loop
\* calls no connect and no read, closes nothing, writes no other address or
\* value and leaves the published snapshot as it is.
C22_KeepAliveWritesOnlyAlive ==
    /\ [](keep_alive_task = "writing" <=> ka_request # NoWrite)
    /\ [](ka_request # NoWrite =>
              ka_request = [method |-> "write_register", address |-> 6000, value |-> 1])
    /\ [][/\ (ka_request = NoWrite /\ ka_request' # NoWrite) =>
                  (connected /\ keep_alive_task = "sleeping")
          /\ KeepAliveStep =>
                 /\ data' = data
                 /\ UNCHANGED <<connected, close_calls, poll_pc, poll_idx, poll_reads,
                                poll_data, w_pc, w_address, w_value>>
                 /\ \/ holding' = holding
                    \/ /\ keep_alive_task = "writing"
                       /\ holding' = [holding EXCEPT ![6000] = 1]]_vars

\* C22 witness: no write call was made, a keep-alive write has set register
\* 6000 to 1 and the next one is in flight, with a snapshot published.
C22_Witness ==
    /\ writes_started = 0
    /\ holding[6000] = 1
    /\ keep_alive_task = "writing"
    /\ ka_request = [method |-> "write_register", address |-> 6000, value |-> 1]
    /\ data # NoData

\* The words a descriptor spans: 2 for uint32, count for a string, 1 for uint16.
Words(register) ==
    CASE register.data_type = "uint32" -> 2
      [] register.data_type = "string" -> register.count
      [] OTHER -> 1

\* The last address of the span of `register`.
SpanEnd(register) == register.address + Words(register) - 1

\* Two descriptors share a word of one bank.
Overlap(a, b) ==
    /\ a.input_type = b.input_type
    /\ a.address <= SpanEnd(b)
    /\ b.address <= SpanEnd(a)

\* Any two distinct entries of the catalog have different keys and spans that
\* share no word of one bank.
CatalogDisjoint ==
    \A i, j \in 1..Len(REGISTER_MAP) :
        i # j => /\ REGISTER_MAP[i].key # REGISTER_MAP[j].key
                 /\ ~Overlap(REGISTER_MAP[i], REGISTER_MAP[j])

\* C23: in REGISTER_MAP all keys are distinct, and the word spans
\* [address, address + words - 1] of two distinct descriptors of the same bank
\* do not overlap; no key of a cycle overwrites another, so a published
\* snapshot holds one entry per descriptor besides the capture time.
C23_CatalogKeysAndSpansDisjoint ==
    /\ CatalogDisjoint
    /\ data # NoData => Cardinality(DOMAIN data) = Len(REGISTER_MAP) + 1

\* C23 witness: a cycle has read the whole catalog, among it two descriptors of
\* the input bank whose spans touch (1502..1503 and 1504..1505) and the string
\* at 100..124 before the one at 130, and the snapshot has one key per entry.
C23_Witness ==
    /\ poll_outcome = "ok"
    /\ Len(poll_reads) = Len(REGISTER_MAP)
    /\ SpanEnd(REGISTER_MAP[30]) = 1503 /\ poll_reads[31].address = 1504
    /\ SpanEnd(REGISTER_MAP[1]) = 124 /\ poll_reads[2].address = 130
    /\ Cardinality(DOMAIN data) = Len(REGISTER_MAP) + 1

\* The step is at an await of its test client.
FlowTesting == flow_pc \in {"connecting", "reading"}

\* The step has created a test client and has ended.
FlowTested == flow_connect # "none" /\ ~FlowTesting

\* The i-th probe read of the step was a read of input register `address`
\* and was answered with `outcome`.
ProbeAnswered(i, address, outcome) ==
    /\ i <= Len(flow_reads)
    /\ flow_reads[i].method = "read_input_registers"
    /\ flow_reads[i].address = address
    /\ flow_reads[i].answer = outcome

\* connect() succeeded, and the read of register 100 or, after that returned
\* an error, the read of register 1000 returned no error.
ProbeSucceeded ==
    /\ flow_connect = "true"
    /\ \/ ProbeAnswered(1, 100, "ok")
       \/ ProbeAnswered(1, 100, "error") /\ ProbeAnswered(2, 1000, "ok")

\* C24: in async_step_user every test client is closed when the step ends,
\* however it ends (connect false, connect or a read raising, both probes
\* failing, success); the entry is created exactly when connect succeeded and
\* the probe read of input register 100 or, after 100 failed, of register 1000
\* returned no error, and otherwise the form is shown again with the error
\* cannot_connect or invalid_slave.
C24_SetupClosesClientAndGatesEntry ==
    /\ flow_clients = flow_closed + (IF FlowTesting THEN 1 ELSE 0)
    /\ (flow_pc = "entry" \/ flow_entry # NoInput) =>
           (FlowTested /\ ProbeSucceeded /\ flow_entry = flow_input)
    /\ FlowTested =>
           IF ProbeSucceeded
           THEN flow_pc = "entry" /\ flow_errors = "none"
           ELSE /\ flow_pc = "form"
                /\ flow_errors \in {"cannot_connect", "invalid_slave"}

\* C24 witness: a first step failed and showed the form again, its client
\* closed; the second connected, got an error for register 100 and a result
\* for register 1000, closed its client and created the entry.
C24_Witness ==
    /\ flow_pc = "entry"
    /\ flow_submits = 2
    /\ flow_clients = 2 /\ flow_closed = 2
    /\ flow_connect = "true"
    /\ Len(flow_reads) = 2
    /\ flow_reads[1].address = 100 /\ flow_reads[1].answer = "error"
    /\ flow_reads[2].address = 1000 /\ flow_reads[2].answer = "ok"
    /\ flow_entry = flow_input
====
